---- MODULE Spec2Model ----
(***************************************************************************)
(* Model of kaimono's PSQLPipeline (src/kaimono/pipelines.py): the record  *)
(* reconciliation (distribute_data, match_ids, check_exists) and the bulk  *)
(* writers (create, update) of process_item, over a store holding the      *)
(* descriptor's table and one referenced table.                            *)
(*                                                                         *)
(* An item is a mapping field -> column (list of values), as the spiders'  *)
(* ItemLoaders build it; a field the loader never received is absent.      *)
(* Every round trip to the database is one step of the model, and so is    *)
(* every iteration of a loop of distribute_data that makes none.           *)
(***************************************************************************)
EXTENDS Integers, Sequences, FiniteSets, TLC

VARIABLES store, refTable, pl

vars == <<store, refTable, pl>>

-----------------------------------------------------------------------------
(* Bounds of the model *)

MaxVal == 2         \* scalar values are 1..MaxVal
MaxLen == 2         \* longest column of an item
MaxRefRows == 2     \* rows of the referenced table
MaxStoreRows == 1   \* rows of the descriptor's table before the first call
MaxCalls == 2       \* process_item calls of one pipeline
MaxKeyLen == 3      \* longest column of a substituted match field (KeySpec)
MaxKeyRefRows == 3  \* rows of the referenced table (KeySpec)

Vals == 1..MaxVal

\* SQL NULL: the value of a column an INSERT did not name
Null == 0

-----------------------------------------------------------------------------
(* Sequence helpers *)

Range(s) == {s[i] : i \in DOMAIN s}

SeqsUpTo(S, n) == UNION {[1..k -> S] : k \in 0..n}

NonEmptySeqsUpTo(S, n) == UNION {[1..k -> S] : k \in 1..n}

Min(S) == CHOOSE x \in S : \A y \in S : x <= y

IndexOf(s, x) == CHOOSE i \in DOMAIN s : s[i] = x

\* Python's list(zip(*columns)): one tuple per position that every column has
Zip(columns) ==
    IF columns = <<>> THEN <<>>
    ELSE [i \in 1..Min({Len(columns[j]) : j \in DOMAIN columns}) |->
             [j \in DOMAIN columns |-> columns[j][i]]]

-----------------------------------------------------------------------------
(* Record descriptors (items.py, class Meta of every item) *)

DbTable == "items"
RefTableName == "refs"
OwnTable == "none"      \* Substitution.table = None: the descriptor's own table

FieldSet == {"id", "name", "cat"}

Substitution(key, field, table) == [key |-> key, field |-> field, table |-> table]

PSQLItemMeta(match_fields, substitutions, do_update) ==
    [db_table |-> DbTable,
     fields |-> <<"id", "name", "cat">>,
     match_fields |-> match_fields,
     substitutions |-> substitutions,
     do_update |-> do_update]

\* CategoryItem.Meta: its body sets to_update = False, an attribute no code
\* reads, and leaves do_update at the default of PSQLItemMeta
CategoryItemMeta == PSQLItemMeta(<<"id">>, {}, TRUE) @@ [to_update |-> FALSE]

\* ProductCategoryItem.Meta, ProductTagItem.Meta, ProductInventoryTagItem.Meta:
\* do_update = False
LinkItemMeta == PSQLItemMeta(<<"id">>, {}, FALSE)

Metas ==
    { PSQLItemMeta(<<"id">>, {}, TRUE),
      LinkItemMeta,
      CategoryItemMeta,
      PSQLItemMeta(<<>>, {}, TRUE),
      PSQLItemMeta(<<"id", "cat">>, {}, TRUE),
      PSQLItemMeta(<<"id">>, {Substitution("cat", "val", RefTableName)}, TRUE),
      PSQLItemMeta(<<"cat">>, {Substitution("cat", "val", RefTableName)}, TRUE),
      PSQLItemMeta(<<"id">>, {Substitution("cat", "name", OwnTable)}, TRUE),
      PSQLItemMeta(<<"sku">>, {}, TRUE) }     \* a match field that is no field

\* An item without a PSQLItemMeta: process_item passes it on untouched
NoMeta == [db_table |-> "", fields |-> <<>>, match_fields |-> <<>>,
           substitutions |-> {}, do_update |-> TRUE]

HasSubstitution(meta, field) == \E s \in meta.substitutions : s.key = field

SubstitutionOf(meta, field) == CHOOSE s \in meta.substitutions : s.key = field

\* The items a loader can yield: every field absent, or a non-empty column
Items == UNION {[S -> NonEmptySeqsUpTo(Vals, MaxLen)] : S \in SUBSET FieldSet}

-----------------------------------------------------------------------------
(* The store *)

Row == [FieldSet -> Vals \cup {Null}]

\* the rows the table holds before the first call: written by earlier batches
\* that supplied every field
StoredRows == {r \in [FieldSet -> Vals] : r["name"] = MaxVal /\ r["cat"] = r["id"]}

RefRow(n) == [id : 1..n, val : Vals]

\* the referenced table: at most n rows in the order the store returns them,
\* the primary key unique
RefTablesOf(n) ==
    {t \in SeqsUpTo(RefRow(n), n) :
        \A i, j \in DOMAIN t : i # j => t[i].id # t[j].id}

RefTables == RefTablesOf(MaxRefRows)

MkRow(fields, data) ==
    [f \in FieldSet |->
        IF f \in Range(fields) THEN data[IndexOf(fields, f)] ELSE Null]

\* a row of the UPDATE's target joins a VALUES row on every match field
Joins(row, fields, match_fields, data) ==
    \A m \in Range(match_fields) : row[m] = data[IndexOf(fields, m)]

SetRow(row, fields, data) ==
    [f \in FieldSet |->
        IF f \in Range(fields) THEN data[IndexOf(fields, f)] ELSE row[f]]

\* an INSERT that leaves the table alone when a row already carries the data
ApplyWriteOnConflict(rows, w) ==
    IF w.kind = "insert"
    THEN IF \E i \in DOMAIN rows : Joins(rows[i], w.fields, w.fields, w.data)
         THEN rows
         ELSE Append(rows, MkRow(w.fields, w.data))
    ELSE [i \in DOMAIN rows |->
             IF Joins(rows[i], w.fields, w.match_fields, w.data)
             THEN SetRow(rows[i], w.fields, w.data)
             ELSE rows[i]]

\* one write of a transaction applied to the rows of the table
ApplyWrite(rows, w) ==
    IF w.kind = "insert" THEN Append(rows, MkRow(w.fields, w.data))
    ELSE [i \in DOMAIN rows |->
             IF Joins(rows[i], w.fields, w.match_fields, w.data)
             THEN SetRow(rows[i], w.fields, w.data)
             ELSE rows[i]]

RECURSIVE ApplyWrites(_, _)
ApplyWrites(rows, ws) ==
    IF ws = <<>> THEN rows
    ELSE ApplyWrites(ApplyWrite(rows, Head(ws)), Tail(ws))

\* what the connection of pipeline p reads: committed rows and its own writes
View(p) == ApplyWrites(store, pl[p].txn)

-----------------------------------------------------------------------------
(* Substitution Resolver and Existence Checker *)

\* the rows SELECT pk, match_field FROM table reads, as (id, val) pairs
LookupRows(p, substitution) ==
    IF substitution.table = OwnTable
    THEN [i \in DOMAIN View(p) |->
             [id |-> View(p)[i]["id"], val |-> View(p)[i][substitution.field]]]
    ELSE refTable

\* [_id for value in values for _id, match in result if value == match]
RECURSIVE MatchedIds(_, _)
MatchedIds(values, result) ==
    IF values = <<>> THEN <<>>
    ELSE LET hits == SelectSeq(result, LAMBDA r : r.val = Head(values))
         IN  [i \in DOMAIN hits |-> hits[i].id] \o MatchedIds(Tail(values), result)

\* match_ids with the parity check made before the empty-result return
match_ids_strict(rows, values) ==
    LET result == SelectSeq(rows, LAMBDA r : r.val \in Range(values))
        ids == MatchedIds(values, result)
    IN  IF Len(ids) # Len(values) THEN [raised |-> TRUE, ids |-> <<>>]
        ELSE [raised |-> FALSE, ids |-> ids]

\* match_ids once the query has answered: raised is the failed assert
match_ids(rows, values) ==
    LET result == SelectSeq(rows, LAMBDA r : r.val \in Range(values))
        ids == MatchedIds(values, result)
    IN  IF result = <<>> THEN [raised |-> FALSE, ids |-> <<>>]
        ELSE IF Len(ids) # Len(values) THEN [raised |-> TRUE, ids |-> <<>>]
        ELSE [raised |-> FALSE, ids |-> ids]

\* a check whose answer is lost: the caller reads None whatever the rows are
check_exists_none(rows, checks) == FALSE

\* check_exists once the query has answered: EXISTS (SELECT 1 ... WHERE f = v AND ...)
\* checks is the dict as a sequence of <<field, value>> pairs
check_exists(rows, checks) ==
    \E i \in DOMAIN rows :
        \A c \in DOMAIN checks : rows[i][checks[c][1]] = checks[c][2]

\* the classification without the do_update test of line 112
ClassifyIgnoringDoUpdate(row_exists, do_update) ==
    IF row_exists THEN "to_update" ELSE "to_create"

\* lines 111-117 of distribute_data: where a record with a new match key goes
Classify(row_exists, do_update) ==
    IF row_exists
    THEN IF do_update = FALSE THEN "drop" ELSE "to_update"
    ELSE "to_create"

\* the early return of lines 95-97 never taken
NeverNoMatchFields(meta) == FALSE

\* the early return of lines 95-97 always taken
AlwaysNoMatchFields(meta) == TRUE

\* line 95: the descriptor declares no match fields
NoMatchFields(meta) == meta.match_fields = <<>>

\* the membership test of line 103 always failing
NeverProcessed(matches, processed_matches) == FALSE

\* line 103: a match key seen earlier in the batch
AlreadyProcessed(matches, processed_matches) == matches \in processed_matches

-----------------------------------------------------------------------------
(* Local state of one pipeline instance inside process_item *)

Pipelines == {1, 2}

NoPrev == [done |-> FALSE, dbfail |-> FALSE, rows |-> 0,
           to_create |-> <<>>, to_update |-> <<>>]

Idle ==
    [pc |-> "idle", calls |-> 0, meta |-> NoMeta, item |-> <<>>,
     field_idx |-> 1, fields |-> <<>>, collected_data |-> <<>>,
     checks_to_exists |-> <<>>, processed_matches |-> {}, index |-> 1,
     to_create |-> <<>>, to_update |-> <<>>,
     create_idx |-> <<>>, update_idx |-> <<>>,
     txn |-> <<>>, err |-> "none", dbfail |-> FALSE, log |-> <<>>,
     before |-> <<>>, prev |-> NoPrev]

Op(op, arg, res) == [op |-> op, arg |-> arg, res |-> res]

\* zip(*checks_to_exists.values()): the match key of every record
MatchKeys(checks_to_exists) ==
    Zip([j \in DOMAIN checks_to_exists |-> checks_to_exists[j][2]])

\* dict(zip(checks_to_exists.keys(), matches))
ChecksOf(checks_to_exists, matches) ==
    [j \in DOMAIN checks_to_exists |-> <<checks_to_exists[j][1], matches[j]>>]

Init ==
    /\ store \in SeqsUpTo(StoredRows, MaxStoreRows)
    /\ refTable \in RefTables
    /\ pl = [p \in Pipelines |-> Idle]

\* what a finished call leaves for the next one to be compared with
Summary(s) ==
    [done |-> s.pc = "done", dbfail |-> s.dbfail, rows |-> Len(store),
     to_create |-> s.to_create, to_update |-> s.to_update]

Start(s, meta, item) ==
    [Idle EXCEPT !.pc = "collect", !.calls = s.calls + 1, !.meta = meta,
                 !.item = item, !.before = store, !.prev = Summary(s)]

\* a descriptor that never reads the referenced table is run with that table
\* empty: its rows cannot change what the descriptor's batches do
Exercised(meta) ==
    \/ refTable = <<>>
    \/ \E s \in meta.substitutions : s.table = RefTableName

\* process_item, lines 42-48: an item with a PSQLItemMeta enters distribute_data
Begin(p) ==
    /\ pl[p].pc = "idle"
    /\ \E meta \in Metas, item \in Items :
          /\ Exercised(meta)
          /\ pl' = [pl EXCEPT ![p] = Start(pl[p], meta, item)]
    /\ UNCHANGED <<store, refTable>>

\* the caller hands a batch that went through to process_item once more
BeginAgain(p) ==
    /\ pl[p].pc = "done"
    /\ ~pl[p].dbfail
    /\ pl[p].meta # NoMeta
    /\ pl[p].calls < MaxCalls
    /\ pl' = [pl EXCEPT ![p] = Start(pl[p], pl[p].meta, pl[p].item)]
    /\ UNCHANGED <<store, refTable>>

\* process_item, lines 43-45: an item without a PSQLItemMeta is passed on
PassItem(p) ==
    /\ pl[p].pc = "idle"
    /\ pl' = [pl EXCEPT ![p] = [Idle EXCEPT !.pc = "done", !.calls = 1]]
    /\ UNCHANGED <<store, refTable>>

-----------------------------------------------------------------------------
(* distribute_data, lines 69-91: the loop over db_meta.fields *)

CurrentField(s) == s.meta.fields[s.field_idx]

Collecting(s) == s.pc = "collect" /\ s.field_idx <= Len(s.meta.fields)

\* lines 87-91
Collected(s, field, values) ==
    [s EXCEPT !.field_idx = @ + 1,
              !.fields = Append(@, field),
              !.collected_data = Append(@, values),
              !.checks_to_exists =
                  IF field \in Range(s.meta.match_fields)
                  THEN Append(@, <<field, values>>) ELSE @]

\* lines 70-73: item.get(field) is None
SkipField(p) ==
    /\ Collecting(pl[p])
    /\ CurrentField(pl[p]) \notin DOMAIN pl[p].item
    /\ pl' = [pl EXCEPT ![p].field_idx = @ + 1]
    /\ UNCHANGED <<store, refTable>>

\* lines 70-91 for a field without a substitution rule
CollectField(p) ==
    LET s == pl[p]  field == CurrentField(s) IN
    /\ Collecting(s)
    /\ field \in DOMAIN s.item
    /\ ~HasSubstitution(s.meta, field)
    /\ pl' = [pl EXCEPT ![p] = Collected(s, field, s.item[field])]
    /\ UNCHANGED <<store, refTable>>

\* lines 75-91: the field's column is replaced by the ids match_ids returns
SubstituteField(p) ==
    LET s == pl[p]
        field == CurrentField(s)
        values == s.item[field]
        r == match_ids(LookupRows(p, SubstitutionOf(s.meta, field)), values)
        logged == [s EXCEPT !.log = Append(@, Op("select", values, "ok"))]
    IN
    /\ Collecting(s)
    /\ field \in DOMAIN s.item
    /\ HasSubstitution(s.meta, field)
    /\ pl' = [pl EXCEPT ![p] =
                IF r.raised
                THEN [logged EXCEPT !.pc = "raised", !.err = "assert"]
                ELSE IF r.ids = <<>>
                THEN [logged EXCEPT !.field_idx = @ + 1]
                ELSE Collected(logged, field, r.ids)]
    /\ UNCHANGED <<store, refTable>>

\* match_ids, lines 135-138: the query fails, rollback, the error is re-raised
MatchIdsError(p) ==
    LET s == pl[p]  field == CurrentField(s) IN
    /\ Collecting(s)
    /\ field \in DOMAIN s.item
    /\ HasSubstitution(s.meta, field)
    /\ pl' = [pl EXCEPT ![p] =
                [s EXCEPT !.pc = "raised", !.err = "db", !.dbfail = TRUE,
                          !.txn = <<>>,
                          !.log = @ \o <<Op("select", s.item[field], "error"),
                                         Op("rollback", <<>>, "ok")>>]]
    /\ UNCHANGED <<store, refTable>>

\* lines 93-97: transposition, and the early return without match fields
Transpose(p) ==
    LET s == pl[p]  rows == Zip(s.collected_data) IN
    /\ s.pc = "collect"
    /\ s.field_idx > Len(s.meta.fields)
    /\ pl' = [pl EXCEPT ![p] =
                IF NoMatchFields(s.meta)
                THEN [s EXCEPT !.collected_data = rows,
                               !.to_create = rows,
                               !.create_idx = [i \in DOMAIN rows |-> i],
                               !.pc = "create"]
                ELSE [s EXCEPT !.collected_data = rows, !.pc = "classify"]]
    /\ UNCHANGED <<store, refTable>>

-----------------------------------------------------------------------------
(* distribute_data, lines 100-118: the loop over the match keys *)

Classifying(s) ==
    s.pc = "classify" /\ s.index <= Len(MatchKeys(s.checks_to_exists))

\* lines 111-117 without the else of line 116: an existing row's record is
\* appended to to_update and then to to_create as well
ClassifiedFallThrough(s, row_exists) ==
    LET data == s.collected_data[s.index]
        target == Classify(row_exists, s.meta.do_update)
    IN  [s EXCEPT !.processed_matches = @ \cup {MatchKeys(s.checks_to_exists)[s.index]},
                  !.index = @ + 1,
                  !.to_create = IF target # "drop" THEN Append(@, data) ELSE @,
                  !.create_idx = IF target # "drop" THEN Append(@, s.index) ELSE @,
                  !.to_update = IF target = "to_update" THEN Append(@, data) ELSE @,
                  !.update_idx = IF target = "to_update" THEN Append(@, s.index) ELSE @]

\* lines 111-117 with the INSERT issued row by row inside the loop
ClassifiedWriting(s, row_exists) ==
    LET data == s.collected_data[s.index]
        target == Classify(row_exists, s.meta.do_update)
    IN  [s EXCEPT !.processed_matches = @ \cup {MatchKeys(s.checks_to_exists)[s.index]},
                  !.index = @ + 1,
                  !.log = IF target = "to_create"
                          THEN Append(@, Op("insert", <<data>>, "ok")) ELSE @,
                  !.to_create = IF target = "to_create" THEN Append(@, data) ELSE @,
                  !.create_idx = IF target = "to_create" THEN Append(@, s.index) ELSE @,
                  !.to_update = IF target = "to_update" THEN Append(@, data) ELSE @,
                  !.update_idx = IF target = "to_update" THEN Append(@, s.index) ELSE @]

\* lines 111-117 without processed_matches.add(matches) of line 109
ClassifiedNoAdd(s, row_exists) ==
    LET data == s.collected_data[s.index]
        target == Classify(row_exists, s.meta.do_update)
    IN  [s EXCEPT !.index = @ + 1,
                  !.to_create = IF target = "to_create" THEN Append(@, data) ELSE @,
                  !.create_idx = IF target = "to_create" THEN Append(@, s.index) ELSE @,
                  !.to_update = IF target = "to_update" THEN Append(@, data) ELSE @,
                  !.update_idx = IF target = "to_update" THEN Append(@, s.index) ELSE @]

\* lines 111-117, with row_exists the value check_exists returned
Classified(s, row_exists) ==
    LET data == s.collected_data[s.index]
        target == Classify(row_exists, s.meta.do_update)
    IN  [s EXCEPT !.processed_matches = @ \cup {MatchKeys(s.checks_to_exists)[s.index]},
                  !.index = @ + 1,
                  !.to_create = IF target = "to_create" THEN Append(@, data) ELSE @,
                  !.create_idx = IF target = "to_create" THEN Append(@, s.index) ELSE @,
                  !.to_update = IF target = "to_update" THEN Append(@, data) ELSE @,
                  !.update_idx = IF target = "to_update" THEN Append(@, s.index) ELSE @]

\* lines 103-104: a record whose match key was seen before is skipped
SkipDuplicate(p) ==
    LET s == pl[p] IN
    /\ Classifying(s)
    /\ AlreadyProcessed(MatchKeys(s.checks_to_exists)[s.index], s.processed_matches)
    /\ pl' = [pl EXCEPT ![p].index = @ + 1]
    /\ UNCHANGED <<store, refTable>>

\* line 107: collected_data is shorter than the match columns
IndexError(p) ==
    LET s == pl[p] IN
    /\ Classifying(s)
    /\ ~AlreadyProcessed(MatchKeys(s.checks_to_exists)[s.index], s.processed_matches)
    /\ s.index > Len(s.collected_data)
    /\ pl' = [pl EXCEPT ![p].pc = "raised", ![p].err = "index"]
    /\ UNCHANGED <<store, refTable>>

\* lines 106-117: the existence query answers and the record is classified
CheckExists(p) ==
    LET s == pl[p]
        matches == MatchKeys(s.checks_to_exists)[s.index]
        row_exists == check_exists(View(p), ChecksOf(s.checks_to_exists, matches))
        logged == [s EXCEPT !.log = Append(@,
                      Op("exists", matches, IF row_exists THEN "found" ELSE "missing"))]
    IN
    /\ Classifying(s)
    /\ ~AlreadyProcessed(matches, s.processed_matches)
    /\ s.index <= Len(s.collected_data)
    /\ pl' = [pl EXCEPT ![p] = Classified(logged, row_exists)]
    /\ UNCHANGED <<store, refTable>>

\* check_exists, lines 157-159: the query fails, rollback, and the function
\* falls off its end: it returns None, which line 111 reads as "no such row"
CheckExistsError(p) ==
    LET s == pl[p]
        matches == MatchKeys(s.checks_to_exists)[s.index]
        logged == [s EXCEPT !.dbfail = TRUE, !.txn = <<>>,
                            !.log = @ \o <<Op("exists", matches, "error"),
                                           Op("rollback", <<>>, "ok")>>]
    IN
    /\ Classifying(s)
    /\ ~AlreadyProcessed(matches, s.processed_matches)
    /\ s.index <= Len(s.collected_data)
    /\ pl' = [pl EXCEPT ![p] = Classified(logged, FALSE)]
    /\ UNCHANGED <<store, refTable>>

\* line 118: distribute_data returns to process_item
ReturnDistributed(p) ==
    LET s == pl[p] IN
    /\ s.pc = "classify"
    /\ s.index > Len(MatchKeys(s.checks_to_exists))
    /\ pl' = [pl EXCEPT ![p].pc = "create"]
    /\ UNCHANGED <<store, refTable>>

-----------------------------------------------------------------------------
(* Batch Writer: create and update, called from process_item lines 49-61 *)

Insert(fields, data) ==
    [kind |-> "insert", fields |-> fields, match_fields |-> <<>>, data |-> data]

Update(fields, match_fields, data) ==
    [kind |-> "update", fields |-> fields, match_fields |-> match_fields, data |-> data]

\* the writes of the first k rows of a bulk statement
InsertsOf(fields, values, k) == [i \in 1..k |-> Insert(fields, values[i])]

UpdatesOf(fields, match_fields, values, k) ==
    [i \in 1..k |-> Update(fields, match_fields, values[i])]

\* the UPDATE's join names tmp.<match_field>: every match field must be a
\* column of the VALUES row-set, or the statement is rejected
UpdateWellFormed(fields, match_fields) == Range(match_fields) \subseteq Range(fields)

\* cur.execute in the place of execute_values: the statement is sent whatever
\* the row list holds
cur_execute(op, values) == <<Op(op, values, "ok")>>

\* the statements execute_values(cur, sql, values) sends (lines 167 and 194):
\* one per page of rows, none for an empty row list
execute_values(op, values) ==
    IF values = <<>> THEN <<>> ELSE <<Op(op, values, "ok")>>

\* line 49: to_create is empty, create is not called
SkipCreate(p) ==
    /\ pl[p].pc = "create"
    /\ pl[p].to_create = <<>>
    /\ pl' = [pl EXCEPT ![p].pc = "update"]
    /\ UNCHANGED <<store, refTable>>

\* create, lines 162-168: execute_values runs the bulk INSERT
CreateExecute(p) ==
    LET s == pl[p] IN
    /\ s.pc = "create"
    /\ s.to_create # <<>>
    /\ pl' = [pl EXCEPT ![p].pc = "create_commit",
                        ![p].txn = @ \o InsertsOf(s.fields, s.to_create, Len(s.to_create)),
                        ![p].log = @ \o execute_values("insert", s.to_create)]
    /\ UNCHANGED <<store, refTable>>

\* create, line 167 raising: execute_values sends the rows page by page, so
\* the rows of the pages before the failing one are in the transaction
CreateFails(p) ==
    LET s == pl[p] IN
    /\ s.pc = "create"
    /\ s.to_create # <<>>
    /\ \E k \in 0..(Len(s.to_create) - 1) :
          pl' = [pl EXCEPT ![p].pc = "create_rollback",
                           ![p].dbfail = TRUE,
                           ![p].txn = @ \o InsertsOf(s.fields, s.to_create, k),
                           ![p].log = Append(@, Op("insert", s.to_create, "error"))]
    /\ UNCHANGED <<store, refTable>>

\* a commit that never reaches the store
CommitLost(rows, txn) == [rows |-> rows, txn |-> <<>>]

\* what conn.commit() leaves: the transaction's writes are in the store
Commit(rows, txn) == [rows |-> ApplyWrites(rows, txn), txn |-> <<>>]

\* an except branch without conn.rollback()
RollbackMissing(rows, txn) == [rows |-> rows, txn |-> txn]

\* what conn.rollback() leaves: the transaction's writes are gone
Rollback(rows, txn) == [rows |-> rows, txn |-> <<>>]

\* create, lines 173-174
CreateCommit(p) ==
    LET s == pl[p]  c == Commit(store, s.txn) IN
    /\ s.pc = "create_commit"
    /\ store' = c.rows
    /\ pl' = [pl EXCEPT ![p].pc = "update", ![p].txn = c.txn,
                        ![p].log = Append(@, Op("commit", <<>>, "ok"))]
    /\ UNCHANGED refTable

\* create, lines 169-172
CreateRollback(p) ==
    LET s == pl[p]  r == Rollback(store, s.txn) IN
    /\ s.pc = "create_rollback"
    /\ store' = r.rows
    /\ pl' = [pl EXCEPT ![p].pc = "raised", ![p].err = "db", ![p].txn = r.txn,
                        ![p].log = Append(@, Op("rollback", <<>>, "ok"))]
    /\ UNCHANGED refTable

\* lines 55 and 62: to_update is empty, update is not called, the item is returned
SkipUpdate(p) ==
    /\ pl[p].pc = "update"
    /\ pl[p].to_update = <<>>
    /\ pl' = [pl EXCEPT ![p].pc = "done"]
    /\ UNCHANGED <<store, refTable>>

\* update, lines 183-195: execute_values runs the bulk UPDATE
UpdateExecute(p) ==
    LET s == pl[p] IN
    /\ s.pc = "update"
    /\ s.to_update # <<>>
    /\ UpdateWellFormed(s.fields, s.meta.match_fields)
    /\ pl' = [pl EXCEPT ![p].pc = "update_commit",
                        ![p].txn = @ \o UpdatesOf(s.fields, s.meta.match_fields,
                                                  s.to_update, Len(s.to_update)),
                        ![p].log = @ \o execute_values("update", s.to_update)]
    /\ UNCHANGED <<store, refTable>>

\* update, line 194 raising
UpdateFails(p) ==
    LET s == pl[p] IN
    /\ s.pc = "update"
    /\ s.to_update # <<>>
    /\ \E k \in 0..(Len(s.to_update) - 1) :
          pl' = [pl EXCEPT ![p].pc = "update_rollback",
                           ![p].dbfail = TRUE,
                           ![p].txn = @ \o
                               (IF UpdateWellFormed(s.fields, s.meta.match_fields)
                                THEN UpdatesOf(s.fields, s.meta.match_fields, s.to_update, k)
                                ELSE <<>>),
                           ![p].log = Append(@, Op("update", s.to_update, "error"))]
    /\ UNCHANGED <<store, refTable>>

\* update, lines 200-201, then process_item returns the item
UpdateCommit(p) ==
    LET s == pl[p]  c == Commit(store, s.txn) IN
    /\ s.pc = "update_commit"
    /\ store' = c.rows
    /\ pl' = [pl EXCEPT ![p].pc = "done", ![p].txn = c.txn,
                        ![p].log = Append(@, Op("commit", <<>>, "ok"))]
    /\ UNCHANGED refTable

\* update, lines 196-199
UpdateRollback(p) ==
    LET s == pl[p]  r == Rollback(store, s.txn) IN
    /\ s.pc = "update_rollback"
    /\ store' = r.rows
    /\ pl' = [pl EXCEPT ![p].pc = "raised", ![p].err = "db", ![p].txn = r.txn,
                        ![p].log = Append(@, Op("rollback", <<>>, "ok"))]
    /\ UNCHANGED refTable

\* create(table_name, fields, values=[]) called on the pipeline directly,
\* lines 161-174
DirectCreate(p) ==
    LET c == Commit(store, InsertsOf(<<"id", "name", "cat">>, <<>>, 0)) IN
    /\ pl[p].pc = "idle"
    /\ store' = c.rows
    /\ pl' = [pl EXCEPT ![p] =
                 [Idle EXCEPT !.pc = "direct_create", !.calls = 1, !.before = store,
                              !.log = execute_values("insert", <<>>)
                                          \o <<Op("commit", <<>>, "ok")>>]]
    /\ UNCHANGED refTable

\* update(table_name, fields, match_fields, values=[]) called on the pipeline
\* directly, lines 176-201
DirectUpdate(p) ==
    LET c == Commit(store, UpdatesOf(<<"id", "name", "cat">>, <<"id">>, <<>>, 0)) IN
    /\ pl[p].pc = "idle"
    /\ store' = c.rows
    /\ pl' = [pl EXCEPT ![p] =
                 [Idle EXCEPT !.pc = "direct_update", !.calls = 1, !.before = store,
                              !.log = execute_values("update", <<>>)
                                          \o <<Op("commit", <<>>, "ok")>>]]
    /\ UNCHANGED refTable

-----------------------------------------------------------------------------
(* One pipeline instance processing batches one after the other *)

Next ==
    \/ Begin(1)
    \/ BeginAgain(1)
    \/ PassItem(1)
    \/ DirectCreate(1)
    \/ DirectUpdate(1)
    \/ SkipField(1)
    \/ CollectField(1)
    \/ SubstituteField(1)
    \/ MatchIdsError(1)
    \/ Transpose(1)
    \/ SkipDuplicate(1)
    \/ IndexError(1)
    \/ CheckExists(1)
    \/ CheckExistsError(1)
    \/ ReturnDistributed(1)
    \/ SkipCreate(1)
    \/ CreateExecute(1)
    \/ CreateFails(1)
    \/ CreateCommit(1)
    \/ CreateRollback(1)
    \/ SkipUpdate(1)
    \/ UpdateExecute(1)
    \/ UpdateFails(1)
    \/ UpdateCommit(1)
    \/ UpdateRollback(1)

Spec == Init /\ [][Next]_vars

-----------------------------------------------------------------------------
(* Vocabulary of the properties: the records of a batch and their match keys,
   read from the item and the reconciliation result of pipeline 1 *)

P1 == pl[1]

\* distribute_data has returned and no writer has run yet
Returned(s) == s.pc = "create"

\* the match fields that made it into the result's fields, in field order
KeyFields(s) == SelectSeq(s.fields, LAMBDA f : f \in Range(s.meta.match_fields))

\* the match key of the i-th tuple of collected_data
KeyAt(s, i) ==
    [j \in DOMAIN KeyFields(s) |->
        s.collected_data[i][IndexOf(s.fields, KeyFields(s)[j])]]

\* a row with that match key is in rows
KeyInRows(s, i, rows) ==
    \E r \in DOMAIN rows :
        \A j \in DOMAIN KeyFields(s) : rows[r][KeyFields(s)[j]] = KeyAt(s, i)[j]

FirstOccurrence(s, i) == \A j \in 1..(i - 1) : KeyAt(s, j) # KeyAt(s, i)

InSeq(x, seq) == \E k \in DOMAIN seq : seq[k] = x

\* the existence query for that key came back with an answer
Answered(s, key) ==
    \E k \in DOMAIN s.log :
        s.log[k].op = "exists" /\ s.log[k].arg = key /\ s.log[k].res # "error"

\* the tuple the result holds for record i is the record's tuple
Emitted(s, idxs, tuples, i) ==
    \E k \in DOMAIN idxs : idxs[k] = i /\ tuples[k] = s.collected_data[i]

\* C1: for a descriptor with match fields, every unique match key whose
\* existence query the store answered is classified by whether a row with that
\* key is in the store: absent -> its tuple is in to_create (and not in
\* to_update); present and do_update -> its tuple is in to_update (and not in
\* to_create); present and not do_update -> it is in neither.
C1_Classification ==
    (Returned(P1) /\ P1.meta.match_fields # <<>> /\ KeyFields(P1) # <<>>) =>
        \A i \in DOMAIN P1.collected_data :
            (FirstOccurrence(P1, i) /\ Answered(P1, KeyAt(P1, i))) =>
                LET found == KeyInRows(P1, i, P1.before)
                    created == InSeq(i, P1.create_idx)
                    updated == InSeq(i, P1.update_idx)
                IN  /\ ~found =>
                        Emitted(P1, P1.create_idx, P1.to_create, i) /\ ~updated
                    /\ (found /\ P1.meta.do_update) =>
                        Emitted(P1, P1.update_idx, P1.to_update, i) /\ ~created
                    /\ (found /\ ~P1.meta.do_update) => (~created /\ ~updated)

\* one batch shows the three outcomes' two sides: a key that exists is dropped
\* under do_update = False while a key that does not exist is created
C1_Witness ==
    /\ Returned(P1)
    /\ ~P1.meta.do_update
    /\ ~P1.dbfail
    /\ \E i, j \in DOMAIN P1.collected_data :
          /\ KeyInRows(P1, i, P1.before)
          /\ ~InSeq(i, P1.create_idx) /\ ~InSeq(i, P1.update_idx)
          /\ ~KeyInRows(P1, j, P1.before)
          /\ InSeq(j, P1.create_idx)

HasOp(s, op) == \E k \in DOMAIN s.log : s.log[k].op = op

\* C3: without match fields every transposed tuple of the batch is in
\* to_create, in order, to_update is empty, and no existence query is issued.
C3_NoMatchFields ==
    (P1.meta # NoMeta /\ P1.meta.match_fields = <<>>) =>
        /\ ~HasOp(P1, "exists")
        /\ P1.to_update = <<>>
        /\ P1.pc \notin {"collect", "raised"} =>
              /\ Len(P1.to_create) =
                    (IF P1.fields = <<>> THEN 0
                     ELSE Min({Len(P1.item[f]) : f \in Range(P1.fields)}))
              /\ \A i \in DOMAIN P1.to_create : \A j \in DOMAIN P1.fields :
                    P1.to_create[i][j] = P1.item[P1.fields[j]][i]

\* two identical records, no match fields: both are created
C3_Witness ==
    /\ P1.meta # NoMeta /\ P1.meta.match_fields = <<>>
    /\ Returned(P1)
    /\ Len(P1.to_create) = 2
    /\ P1.to_create[1] = P1.to_create[2]

\* the indexes of the records that carry the first occurrence of their key
FirstIndexes(s) ==
    LET keys == MatchKeys(s.checks_to_exists)
    IN  {i \in DOMAIN keys : \A j \in 1..(i - 1) : keys[j] # keys[i]}

Increasing(seq) == \A a, b \in DOMAIN seq : a < b => seq[a] < seq[b]

\* the call at hand repeats a call that went through with no database error
SecondRun(s) ==
    /\ s.calls >= 2
    /\ s.prev.done /\ ~s.prev.dbfail
    /\ s.pc = "done" /\ ~s.dbfail
    /\ s.meta.do_update
    /\ s.meta.match_fields # <<>>

\* C4: when the same batch is processed again after a run that went through
\* (do_update, match fields, no database error in either run), the second run
\* creates nothing, updates exactly the first record of every match key, in
\* batch order, and leaves the number of rows of the table as it was.
C4_SecondRunUpdatesOnly ==
    SecondRun(P1) =>
        /\ P1.to_create = <<>>
        /\ Range(P1.update_idx) = FirstIndexes(P1)
        /\ Increasing(P1.update_idx)
        /\ \A k \in DOMAIN P1.update_idx :
              P1.to_update[k] = P1.collected_data[P1.update_idx[k]]
        /\ Len(store) = P1.prev.rows

\* the first run created two rows, the second run updates both
C4_Witness ==
    /\ SecondRun(P1)
    /\ Len(P1.prev.to_create) = 2
    /\ P1.update_idx = <<1, 2>>

OpFailed(s, op) ==
    \E k \in DOMAIN s.log : s.log[k].op = op /\ s.log[k].res = "error"

\* C5: a call whose bulk UPDATE fails after its bulk INSERT leaves the store
\* as it was before the call.
C5_AllOrNothing ==
    (/\ P1.pc = "raised"
     /\ OpFailed(P1, "update")
     /\ P1.to_create # <<>>
     /\ P1.to_update # <<>>) => store = P1.before

\* C6: a failed existence query aborts the batch: no INSERT or UPDATE runs for
\* it, the call does not return normally, and every record in to_create had
\* its existence query answered "not found".
C6_CheckFailureAborts ==
    /\ OpFailed(P1, "exists") =>
          /\ ~HasOp(P1, "insert") /\ ~HasOp(P1, "update")
          /\ P1.pc # "done"
    /\ (P1.meta.match_fields # <<>> /\ P1.pc \in {"classify", "create"}) =>
          \A k \in DOMAIN P1.create_idx :
              \E l \in DOMAIN P1.log :
                  /\ P1.log[l].op = "exists"
                  /\ P1.log[l].arg = KeyAt(P1, P1.create_idx[k])
                  /\ P1.log[l].res = "missing"

\* the substituted field whose column match_ids has replaced, if any
Resolved(s) ==
    {sub \in s.meta.substitutions : s.pc = "collect" /\ sub.key \in Range(s.fields)}

\* C7: a non-empty result of match_ids has the length of its input, and its
\* i-th id is the primary key of a row whose referenced field is the i-th value.
C7_MatchIdsParity ==
    \A sub \in Resolved(P1) :
        LET values == P1.item[sub.key]
            ids == P1.collected_data[IndexOf(P1.fields, sub.key)]
            rows == LookupRows(1, sub)
        IN  /\ Len(ids) = Len(values)
            /\ \A i \in DOMAIN ids :
                  \E r \in DOMAIN rows : rows[r].id = ids[i] /\ rows[r].val = values[i]

\* no row of the table a substitution reads carries one of the item's values
AllMiss(s, sub) ==
    /\ sub.key \in DOMAIN s.item
    /\ LET rows == IF sub.table = OwnTable
                   THEN [i \in DOMAIN s.before |->
                            [id |-> s.before[i]["id"], val |-> s.before[i][sub.field]]]
                   ELSE refTable
       IN  \A r \in DOMAIN rows : rows[r].val \notin Range(s.item[sub.key])

\* the fields of the item other than f, in the descriptor's order
OtherFields(s, f) ==
    SelectSeq(s.meta.fields, LAMBDA g : g \in DOMAIN s.item /\ g # f)

\* every tuple the result holds carries, in the order of fields, the values the
\* record it stems from supplied
TuplesFromItem(s, idxs, tuples) ==
    \A k \in DOMAIN tuples :
        /\ Len(tuples[k]) = Len(s.fields)
        /\ \A j \in DOMAIN s.fields : tuples[k][j] = s.item[s.fields[j]][idxs[k]]

InWriter(s) ==
    s.pc \in {"create_commit", "create_rollback", "update_commit", "update_rollback"}

AllInserts(s) == InsertsOf(s.fields, s.to_create, Len(s.to_create))

AllUpdates(s) ==
    UpdatesOf(s.fields, s.meta.match_fields, s.to_update, Len(s.to_update))

\* C10: outside create and update the connection holds no uncommitted write;
\* a create that returns has made all its rows durable, an update that returns
\* has applied all its rows, and a writer whose statement fails re-raises the
\* error with none of its rows applied.
C10_WriterTransaction ==
    /\ ~InWriter(P1) => P1.txn = <<>>
    /\ P1.pc = "update" => store = ApplyWrites(P1.before, AllInserts(P1))
    /\ (P1.pc = "done" /\ P1.to_update # <<>>) =>
          store = ApplyWrites(P1.before, AllInserts(P1) \o AllUpdates(P1))
    /\ (P1.pc = "raised" /\ OpFailed(P1, "insert")) =>
          P1.err = "db" /\ store = P1.before
    /\ (P1.pc = "raised" /\ OpFailed(P1, "update")) =>
          P1.err = "db" /\ store = ApplyWrites(P1.before, AllInserts(P1))

\* a bulk INSERT of two rows failed and was rolled back: the store is untouched
C10_Witness ==
    /\ P1.pc = "raised"
    /\ OpFailed(P1, "insert")
    /\ Len(P1.to_create) = 2
    /\ store = P1.before

-----------------------------------------------------------------------------
(* The reconciler alone, on batches whose only field is a substituted match
   field: distribute_data from its call to its return *)

KeyMeta == PSQLItemMeta(<<"cat">>, {Substitution("cat", "val", RefTableName)}, TRUE)

KeyItems == [{"cat"} -> NonEmptySeqsUpTo(Vals, MaxKeyLen)]

KeyInit ==
    /\ store = <<>>
    /\ refTable \in RefTablesOf(MaxKeyRefRows)
    /\ pl = [p \in Pipelines |-> Idle]

\* distribute_data is called with a batch of KeyItems
BeginKeyed(p) ==
    /\ pl[p].pc = "idle"
    /\ \E item \in KeyItems : pl' = [pl EXCEPT ![p] = Start(pl[p], KeyMeta, item)]
    /\ UNCHANGED <<store, refTable>>

KeyNext ==
    \/ BeginKeyed(1)
    \/ SkipField(1)
    \/ SubstituteField(1)
    \/ MatchIdsError(1)
    \/ Transpose(1)
    \/ SkipDuplicate(1)
    \/ CheckExists(1)
    \/ CheckExistsError(1)
    \/ ReturnDistributed(1)

KeySpec == KeyInit /\ [][KeyNext]_vars

\* the match values record i supplied, before any substitution
RawKey(s, i) == [j \in DOMAIN KeyFields(s) |-> s.item[KeyFields(s)[j]][i]]

\* C9: with a substituted match field, a record is dropped as a duplicate
\* exactly when an earlier record of the batch supplied the same raw match
\* values.
C9_DedupOnRawValues ==
    (Returned(P1) /\ KeyFields(P1) # <<>> /\ P1.meta.do_update) =>
        \A j \in DOMAIN P1.collected_data :
            (\E i \in 1..(j - 1) : RawKey(P1, i) = RawKey(P1, j))
                <=> (~InSeq(j, P1.create_idx) /\ ~InSeq(j, P1.update_idx))

-----------------------------------------------------------------------------
(* Properties of the reconciliation result and of the calls made for it *)

NoRepeats(seq) == \A a, b \in DOMAIN seq : a # b => seq[a] # seq[b]

\* the tuples are those of the records the indexes name
TuplesOfRecords(s, idxs, tuples) ==
    /\ Len(tuples) = Len(idxs)
    /\ \A k \in DOMAIN idxs :
          /\ idxs[k] \in DOMAIN s.collected_data
          /\ tuples[k] = s.collected_data[idxs[k]]

\* C11: no record of the batch has a tuple in both to_create and to_update or
\* twice in one of them, and every tuple of the two is the tuple of a record
\* of the batch.
C11_DisjointByRecord ==
    P1.pc # "collect" =>
        /\ NoRepeats(P1.create_idx \o P1.update_idx)
        /\ TuplesOfRecords(P1, P1.create_idx, P1.to_create)
        /\ TuplesOfRecords(P1, P1.update_idx, P1.to_update)

\* of two records one was created and the other updated
C11_Witness ==
    /\ Returned(P1)
    /\ Len(P1.create_idx) = 1
    /\ Len(P1.update_idx) = 1

\* C12: whenever update is invoked, every match field of the descriptor is
\* among the fields passed to it.
C12_MatchFieldsInUpdate ==
    HasOp(P1, "update") => Range(P1.meta.match_fields) \subseteq Range(P1.fields)

-----------------------------------------------------------------------------
(* Two pipelines, each on its own connection, write to one table *)

MaxRaceLen == 2

RaceMeta == PSQLItemMeta(<<"id">>, {}, TRUE)

\* batches whose records all supply id and name
RaceItems ==
    UNION {[{"id", "name"} -> [1..n -> Vals]] : n \in 1..MaxRaceLen}

RaceInit ==
    /\ store = <<>>
    /\ refTable = <<>>
    /\ pl = [p \in Pipelines |-> Idle]

\* process_item, lines 42-48, in one of the two processes
BeginRace(p) ==
    /\ pl[p].pc = "idle"
    /\ \E item \in RaceItems : pl' = [pl EXCEPT ![p] = Start(pl[p], RaceMeta, item)]
    /\ UNCHANGED <<store, refTable>>

RaceNext ==
    \E p \in Pipelines :
        \/ BeginRace(p)
        \/ SkipField(p)
        \/ CollectField(p)
        \/ Transpose(p)
        \/ SkipDuplicate(p)
        \/ CheckExists(p)
        \/ CheckExistsError(p)
        \/ ReturnDistributed(p)
        \/ SkipCreate(p)
        \/ CreateExecute(p)
        \/ CreateFails(p)
        \/ CreateCommit(p)
        \/ CreateRollback(p)
        \/ SkipUpdate(p)
        \/ UpdateExecute(p)
        \/ UpdateFails(p)
        \/ UpdateCommit(p)
        \/ UpdateRollback(p)

RaceSpec == RaceInit /\ [][RaceNext]_vars

\* the existence check of s for the key answered that no row has it
AnsweredMissing(s, key) ==
    \E k \in DOMAIN s.log : s.log[k] = Op("exists", key, "missing")

\* create of s committed its INSERT
InsertCommitted(s) == HasOp(s, "commit")

RowsWithId(v) == {i \in DOMAIN store : store[i]["id"] = v}

\* C13: when the existence checks of both pipelines answered 'not found' for
\* the same key (so neither insert was committed before the other's check) and
\* both creates committed, the table holds two rows with that key.
C13_RaceDuplicates ==
    \A v \in Vals :
        (/\ AnsweredMissing(pl[1], <<v>>)
         /\ AnsweredMissing(pl[2], <<v>>)
         /\ InsertCommitted(pl[1])
         /\ InsertCommitted(pl[2]))
        => Cardinality(RowsWithId(v)) >= 2

\* the interleaving is reached: both checks missed, both pipelines are done
\* and the table, empty at the start, has two rows for the key
C13_Witness ==
    \E v \in Vals :
        /\ AnsweredMissing(pl[1], <<v>>)
        /\ AnsweredMissing(pl[2], <<v>>)
        /\ pl[1].pc = "done"
        /\ pl[2].pc = "done"
        /\ Cardinality(RowsWithId(v)) = 2

-----------------------------------------------------------------------------
(* Writers and descriptors *)

\* C14: an empty row list executes no statement: with to_create empty no
\* INSERT is executed and with to_update empty no UPDATE, in process_item as
\* in a direct call of create or update with no rows, which leaves the table
\* as it was.
C14_EmptyRowsNoStatement ==
    /\ P1.to_create = <<>> => ~HasOp(P1, "insert")
    /\ P1.to_update = <<>> => ~HasOp(P1, "update")
    /\ P1.pc \in {"direct_create", "direct_update"} =>
          /\ ~HasOp(P1, "insert")
          /\ ~HasOp(P1, "update")
          /\ store = P1.before

\* update was called directly with no rows and has committed
C14_Witness ==
    /\ P1.pc = "direct_update"
    /\ HasOp(P1, "commit")
    /\ Len(store) > 0

\* what the specification's construction-time validation accepts
ValidDescriptor(meta) ==
    /\ meta.db_table # ""
    /\ meta.fields # <<>>
    /\ Range(meta.match_fields) \subseteq Range(meta.fields)

\* C15: distribute_data never runs with a descriptor whose table or fields
\* are empty or that names a match field outside its fields.
C15_DescriptorValidated ==
    (P1.meta # NoMeta /\ P1.pc # "idle") => ValidDescriptor(P1.meta)

\* distribute_data is running, has returned, or has raised
InDistribute(s) ==
    \/ s.pc \in {"collect", "classify"}
    \/ Returned(s)
    \/ s.pc = "raised" /\ ~HasOp(s, "insert") /\ ~HasOp(s, "update")

ReadOps == {"select", "exists"}

\* C16: across a call of distribute_data, however it ends, the table's rows
\* are those at the call, nothing is pending in the transaction, and the only
\* operations issued are the reads and, after a failed read, a rollback.
C16_ReconcilerReadOnly ==
    InDistribute(P1) =>
        /\ store = P1.before
        /\ P1.txn = <<>>
        /\ \A k \in DOMAIN P1.log :
              \/ P1.log[k].op \in ReadOps
              \/ /\ P1.log[k].op = "rollback"
                 /\ k > 1
                 /\ P1.log[k - 1].op \in ReadOps
                 /\ P1.log[k - 1].res = "error"

\* distribute_data returned tuples for both lists after one existence check
\* failed and was rolled back
C16_Witness ==
    /\ Returned(P1)
    /\ P1.to_create # <<>>
    /\ P1.to_update # <<>>
    /\ HasOp(P1, "rollback")

-----------------------------------------------------------------------------
(* One pipeline, batch after batch of the shapes of one table, no statement
   failing *)

MaxBatches == 2

\* the shapes of the table: one match key, with and without updates
SeqMetas == { PSQLItemMeta(<<"id">>, {}, TRUE), PSQLItemMeta(<<"id">>, {}, FALSE) }

\* batches that supply the match field
SeqItems ==
    UNION {[S -> NonEmptySeqsUpTo(Vals, MaxLen)] : S \in {{"id"}, {"id", "name"}}}

\* no two rows of the table carry the same match key
UniqueOnKey(rows) ==
    \A i, j \in DOMAIN rows : i # j => rows[i]["id"] # rows[j]["id"]

SeqInit ==
    /\ store \in {rows \in SeqsUpTo(StoredRows, MaxStoreRows) : UniqueOnKey(rows)}
    /\ refTable = <<>>
    /\ pl = [p \in Pipelines |-> Idle]

\* process_item, lines 42-48, for the next item the crawl yields
BeginNext(p) ==
    /\ pl[p].pc \in {"idle", "done", "raised"}
    /\ pl[p].calls < MaxBatches
    /\ \E meta \in SeqMetas, item \in SeqItems :
          pl' = [pl EXCEPT ![p] = Start(pl[p], meta, item)]
    /\ UNCHANGED <<store, refTable>>

SeqNext ==
    \/ BeginNext(1)
    \/ SkipField(1)
    \/ CollectField(1)
    \/ Transpose(1)
    \/ SkipDuplicate(1)
    \/ IndexError(1)
    \/ CheckExists(1)
    \/ ReturnDistributed(1)
    \/ SkipCreate(1)
    \/ CreateExecute(1)
    \/ CreateCommit(1)
    \/ SkipUpdate(1)
    \/ UpdateExecute(1)
    \/ UpdateCommit(1)

SeqSpec == SeqInit /\ [][SeqNext]_vars

\* C17: with one pipeline, batches one after the other, no statement failing
\* and the match field in every batch, a table that starts without two rows
\* of the same match key never holds two such rows.
C17_KeysStayUnique == UniqueOnKey(store)

\* the second batch repeated a key the first one had inserted and brought a
\* new one: both lists were flushed and the table has grown
C17_Witness ==
    /\ P1.calls = 2
    /\ P1.pc = "done"
    /\ P1.prev.to_create # <<>>
    /\ P1.to_create # <<>>
    /\ P1.to_update # <<>>
    /\ Len(store) >= 2

-----------------------------------------------------------------------------
(* The calls distribute_data makes and the tuples it builds *)

\* the check_exists calls made so far, in the order they were made
ExistsCalls(s) == SelectSeq(s.log, LAMBDA o : o.op = "exists")

\* the records the loop has passed whose match key none before them had
FirstSeen(s) == {i \in FirstIndexes(s) : i < s.index}

\* C18: check_exists is called once per distinct match-key tuple and never for
\* a duplicate, in the order of the keys' first occurrences: the k-th call
\* carries the key of the k-th record that brought a new key, one value per
\* match field of the key.
C18_OneCheckPerKey ==
    LET calls == ExistsCalls(P1)
        keys == MatchKeys(P1.checks_to_exists)
    IN  /\ Len(calls) = Cardinality(FirstSeen(P1))
        /\ \A k \in DOMAIN calls :
              \E i \in FirstSeen(P1) :
                  /\ Cardinality({j \in FirstSeen(P1) : j < i}) = k - 1
                  /\ calls[k].arg = keys[i]
                  /\ Len(calls[k].arg) = Len(KeyFields(P1))

\* a batch of two records with one composite key: one check was made
C18_Witness ==
    LET keys == MatchKeys(P1.checks_to_exists)
    IN  /\ Returned(P1)
        /\ Len(keys) = 2
        /\ Len(keys[1]) = 2
        /\ keys[1] = keys[2]
        /\ Len(ExistsCalls(P1)) = 1

\* distribute_data has transposed the columns (line 93)
Transposed(s) == s.pc = "classify" \/ Returned(s)

\* C19: the transposition yields one tuple per record, in the records' order:
\* there are as many tuples as each included column has values, and tuple i
\* holds the i-th value of every included column.
C19_OneTuplePerRecord ==
    Transposed(P1) =>
        \A j \in DOMAIN P1.fields :
            LET f == P1.fields[j] IN
            /\ Len(P1.collected_data) = Len(P1.item[f])
            /\ ~HasSubstitution(P1.meta, f) =>
                  \A i \in DOMAIN P1.collected_data :
                      P1.collected_data[i][j] = P1.item[f][i]

\* the loop over db_meta.fields has ended (line 91)
CollectionDone(s) == s.meta # NoMeta /\ s.field_idx > Len(s.meta.fields)

\* C20: when the descriptor declares match fields and none of them has a
\* column in the result (absent from the item, or its substitution resolved
\* to nothing), distribute_data returns to_create and to_update empty whatever
\* the other columns carry: no existence check is made, nothing is written
\* and no error is raised.
C20_NoKeyColumnNoRows ==
    (/\ CollectionDone(P1)
     /\ P1.meta.match_fields # <<>>
     /\ KeyFields(P1) = <<>>)
    => /\ P1.pc # "raised"
       /\ P1.to_create = <<>>
       /\ P1.to_update = <<>>
       /\ ~HasOp(P1, "exists")
       /\ ~HasOp(P1, "insert")
       /\ ~HasOp(P1, "update")
       /\ store = P1.before

\* the match field's substitution found no id, two other columns carry the
\* data of two records, and process_item has returned
C20_Witness ==
    /\ P1.pc = "done"
    /\ P1.meta.match_fields = <<"cat">>
    /\ "cat" \in DOMAIN P1.item
    /\ KeyFields(P1) = <<>>
    /\ Len(P1.fields) = 2
    /\ Len(P1.collected_data) = 2

-----------------------------------------------------------------------------
(* The order of the operations of one process_item call *)

WriteOps == {"insert", "update", "commit"}

\* C21: in a process_item call every substitution lookup and every existence
\* check comes before the first write, the bulk INSERT and its commit come
\* before the bulk UPDATE, and every existence answer is the answer for the
\* table as it was when the call began.
C21_ReadsBeforeWrites ==
    LET log == P1.log IN
    /\ \A a, b \in DOMAIN log :
          (log[a].op \in ReadOps /\ log[b].op \in WriteOps) => a < b
    /\ \A a, b \in DOMAIN log :
          (log[a].op = "insert" /\ log[b].op = "update") =>
              /\ a < b
              /\ \E c \in DOMAIN log : a < c /\ c < b /\ log[c].op = "commit"
    /\ \A k \in DOMAIN log :
          (log[k].op = "exists" /\ log[k].res # "error") =>
              (log[k].res = "found" <=>
                  \E r \in DOMAIN P1.before :
                      \A j \in DOMAIN KeyFields(P1) :
                          P1.before[r][KeyFields(P1)[j]] = log[k].arg[j])

\* a call that looked ids up, checked two keys, inserted one record, committed
\* and updated the other
C21_Witness ==
    /\ P1.pc = "done"
    /\ HasOp(P1, "select")
    /\ Len(ExistsCalls(P1)) = 2
    /\ HasOp(P1, "insert")
    /\ HasOp(P1, "update")

-----------------------------------------------------------------------------
(* Shapes that are not to be updated *)

\* the descriptor's body switches updates off, as do_update or as to_update
SwitchesUpdatesOff(meta) ==
    \/ meta.do_update = FALSE
    \/ "to_update" \in DOMAIN meta /\ meta["to_update"] = FALSE

\* C22: for a shape whose descriptor switches updates off, a record whose
\* match key is in the table is dropped: to_update stays empty and
\* process_item issues no UPDATE.
C22_UpdatesOffNeverUpdated ==
    SwitchesUpdatesOff(P1.meta) =>
        /\ P1.to_update = <<>>
        /\ ~HasOp(P1, "update")

====
